---- MODULE Spec2Model ----
(***************************************************************************)
(* Model of testutil/network/network.go: the test-network fixture of the   *)
(* chihuahua chain.  New creates an in-memory keyring, one funded genesis   *)
(* account per requested name (newGenAccout), merges them into the genesis  *)
(* state of the configuration (addGenAccounts), starts the network harness  *)
(* and registers its teardown with the test.  DefaultConfig builds the      *)
(* default launch configuration.                                            *)
(*                                                                         *)
(* Strings that the code compares or concatenates (denominations, chain     *)
(* IDs, account names) are sequences of character codes, so that            *)
(* concatenation and lexicographic order are computed, not assumed.         *)
(***************************************************************************)
EXTENDS Integers, Sequences, FiniteSets, TLC

\* ------------------------------------------------------------------ bounds
\* longest genAccNames list passed to New
MaxNames == 2
\* calls of New / addGenAccounts made by one test
MaxCalls == 2
\* calls of DefaultConfig followed in the configuration specification
MaxCfgCalls == 2

\* ----------------------------------------------------------------- strings
\* "token", the suffix of the name-scoped denomination (line 125)
tokenSuffix == <<116, 111, 107, 101, 110>>
\* sdk.DefaultBondDenom, "stake" (line 126)
DefaultBondDenom == <<115, 116, 97, 107, 101>>
\* "chain-" (line 75)
chainPrefix == <<99, 104, 97, 105, 110, 45>>
\* account names a test asks for: "al" and "z" ("altoken" sorts before
\* "stake", "ztoken" after it)
NameAl == <<97, 108>>
NameZ == <<122>>
Names == {NameAl, NameZ}

\* Go's string comparison a < b: bytewise lexicographic, a proper prefix first
RECURSIVE StrLess(_, _)
StrLess(a, b) ==
    IF b = <<>> THEN FALSE
    ELSE IF a = <<>> THEN TRUE
    ELSE IF Head(a) # Head(b) THEN Head(a) < Head(b)
    ELSE StrLess(Tail(a), Tail(b))

\* ------------------------------------------------------------------- coins
\* funding amount New gives every account (line 39), as the decimal string of
\* the sdk.Int: the code copies and never computes with it
NewAmount == "1000000000000"

\* sdk.NewCoin(denom, sdk.NewInt(amount)) (lines 125-126)
NewCoin(denom, amount) == [denom |-> denom, amount |-> amount]

\* insertion of one coin into a list ordered by denomination
RECURSIVE InsertCoin(_, _)
InsertCoin(c, coins) ==
    IF coins = <<>> THEN <<c>>
    ELSE IF StrLess(c.denom, Head(coins).denom) THEN <<c>> \o coins
    ELSE <<Head(coins)>> \o InsertCoin(c, Tail(coins))

\* Coins.Sort(): ascending by denomination (line 131; NewCoins sorts as well)
RECURSIVE SortCoins(_)
SortCoins(coins) ==
    IF coins = <<>> THEN <<>>
    ELSE InsertCoin(Head(coins), SortCoins(Tail(coins)))

\* sdk.NewCoins(c1, c2): the coins as an ordered set (line 124)
NewCoins(c1, c2) == SortCoins(<<c1, c2>>)

\* ----------------------------------------------------------------- keyring
\* bip39 passphrases of the two keyring calls: "" in NewMnemonic (line 113),
\* "1234" in NewAccount (line 118)
PassEmpty == "empty"
Pass1234 == "1234"

\* the private key a mnemonic and a bip39 passphrase derive: the seed depends
\* on both, so two passphrases give two keys
Derive(mnemonic, passphrase) == [mn |-> mnemonic, pass |-> passphrase]
\* info.GetPubKey() and info.GetAddress() of the identity of a private key
PubKeyOf(priv) == [pubOf |-> priv]
AddressOf(priv) == [addrOf |-> PubKeyOf(priv)]
\* keyring.Info of a stored key
InfoOf(name, priv) ==
    [name |-> name, address |-> AddressOf(priv), pubKey |-> PubKeyOf(priv)]

\* the keyring is a map from uid to Info; keyring.NewInMemory() is empty
generateKeyring == <<>>
KrHas(kr, name) == \E k \in 1..Len(kr) : kr[k].name = name
KrGet(kr, name) == kr[CHOOSE k \in 1..Len(kr) : kr[k].name = name]
KrPut(kr, info) ==
    IF KrHas(kr, info.name)
    THEN [k \in 1..Len(kr) |-> IF kr[k].name = info.name THEN info ELSE kr[k]]
    ELSE Append(kr, info)

\* What a keyring does with a second key under a uid it already holds is the
\* library's choice, not this file's: "reject" (an error) or "overwrite".
UidPolicies == {"reject", "overwrite"}

\* kr.NewAccount(name, mnemonic, bip39Passphrase, "", algo) (line 118)
NewAccount(kr, name, mnemonic, passphrase, policy) ==
    LET info == InfoOf(name, Derive(mnemonic, passphrase))
    IN  IF KrHas(kr, name) /\ policy = "reject"
        THEN [err |-> TRUE, kr |-> kr, info |-> info]
        ELSE [err |-> FALSE, kr |-> KrPut(kr, info), info |-> info]

\* kr.NewMnemonic(name, English, "", "", algo) (line 113): a fresh mnemonic,
\* stored under name with the empty passphrase; entropyOk = FALSE is a failure
\* of the key generation
NewMnemonic(kr, name, mnemonic, entropyOk, policy) ==
    IF ~entropyOk
    THEN [err |-> TRUE, kr |-> kr, info |-> InfoOf(name, Derive(0, PassEmpty)),
          mnm |-> 0]
    ELSE LET r == NewAccount(kr, name, mnemonic, PassEmpty, policy)
         IN  [err |-> r.err, kr |-> r.kr, info |-> r.info, mnm |-> mnemonic]

\* ---------------------------------------------------------------- accounts
\* authtypes.NewBaseAccount(address, pubKey, 0, 0) (line 134)
NewBaseAccount(address, pubKey, accNum, seq) ==
    [kind |-> "BaseAccount", address |-> address, pubKey |-> pubKey,
     accountNumber |-> accNum, sequence |-> seq]

\* banktypes.Balance{Address, Coins} (lines 129-132)
Balance(address, coins) == [address |-> address, coins |-> coins]

\* newGenAccout(kr, name, amount) (lines 112-135); mnemonic and entropyOk are
\* what the key generation draws.  panic marks the two panic(err) exits.
newGenAccoutSwapped(kr, name, amount, mnemonic, entropyOk, policy) ==
    LET r1 == NewMnemonic(kr, name, mnemonic, entropyOk, policy)
        r2 == NewAccount(r1.kr, name, r1.mnm, Pass1234, policy)
        balances == <<NewCoin(DefaultBondDenom, amount),
                      NewCoin(name \o tokenSuffix, amount)>>
    IN  [panic |-> r1.err \/ r2.err,
         kr |-> IF r1.err THEN r1.kr ELSE r2.kr,
         acc |-> NewBaseAccount(r1.info.address, r1.info.pubKey, 0, 0),
         bal |-> Balance(r1.info.address, balances)]
newGenAccout(kr, name, amount, mnemonic, entropyOk, policy) ==
    LET r1 == NewMnemonic(kr, name, mnemonic, entropyOk, policy)
        r2 == NewAccount(r1.kr, name, r1.mnm, Pass1234, policy)
        balances == NewCoins(NewCoin(name \o tokenSuffix, amount),
                             NewCoin(DefaultBondDenom, amount))
    IN  [panic |-> r1.err \/ r2.err,
         kr |-> IF r1.err THEN r1.kr ELSE r2.kr,
         acc |-> NewBaseAccount(r1.info.address, r1.info.pubKey, 0, 0),
         bal |-> Balance(r1.info.address, SortCoins(balances))]

\* ------------------------------------------------------------------- codec
\* Serialized module state is a sequence of tokens.  The canonical form the
\* codec writes is  { params [ item ... ] } ; input may carry white space
\* anywhere, and anything else is malformed.
NoValue == [none |-> TRUE]
Tok(t, v) == [t |-> t, v |-> v]
LBrace == Tok("{", NoValue)
RBrace == Tok("}", NoValue)
LBrack == Tok("[", NoValue)
RBrack == Tok("]", NoValue)
Space == Tok(" ", NoValue)
IsNotSpace(tok) == tok.t # " "

\* cfg.Codec.MustMarshalJSON(&state) (lines 100, 107)
MustMarshalJSON(state) ==
    <<LBrace, Tok("params", state.params), LBrack>>
        \o [k \in 1..Len(state.items) |-> Tok("item", state.items[k])]
        \o <<RBrack, RBrace>>

\* cfg.Codec.MustUnmarshalJSON(bz, &state) (lines 92, 104); ok = FALSE is the
\* panic of the Must variant on bytes that do not parse (empty ones included)
MustUnmarshalJSON(bz) ==
    LET s == SelectSeq(bz, IsNotSpace)
        n == Len(s)
        wellFormed ==
            /\ n >= 5
            /\ s[1] = LBrace /\ s[2].t = "params" /\ s[3] = LBrack
            /\ s[n - 1] = RBrack /\ s[n] = RBrace
            /\ \A k \in 4..(n - 2) : s[k].t = "item"
    IN  IF wellFormed
        THEN [ok |-> TRUE, params |-> s[2].v,
              items |-> [k \in 1..(n - 5) |-> s[k + 3].v]]
        ELSE [ok |-> FALSE, params |-> NoValue, items |-> <<>>]

\* authtypes.PackAccounts(genAccounts) (line 94): every account wrapped in an
\* Any; an account that is no proto message is an error
BaseAccountTypeURL == "/cosmos.auth.v1beta1.BaseAccount"
PackAccounts(genAccounts) ==
    IF \E k \in 1..Len(genAccounts) : genAccounts[k].kind # "BaseAccount"
    THEN [err |-> TRUE, anys |-> <<>>]
    ELSE [err |-> FALSE,
          anys |-> [k \in 1..Len(genAccounts) |->
                       [typeUrl |-> BaseAccountTypeURL, value |-> genAccounts[k]]]]

\* ----------------------------------------------------------- genesis state
\* authtypes.ModuleName, banktypes.ModuleName, and a module the fixture does
\* not know
AuthModuleName == "auth"
BankModuleName == "bank"
StakingModuleName == "staking"

\* cfg.GenesisState[key]: a Go map read, nil (no bytes) for a missing key
MapGet(gs, key) == IF key \in DOMAIN gs THEN gs[key] ELSE <<>>
\* cfg.GenesisState[key] = bz: a Go map write
MapPutOnly(gs, key, bz) == [k \in {key} |-> bz]
MapPut(gs, key, bz) ==
    [k \in DOMAIN gs \cup {key} |-> IF k = key THEN bz ELSE gs[k]]

\* append(authGenState.Accounts, accounts...) (line 99)
AppendAccountsDedup(old, new) ==
    old \o SelectSeq(new, LAMBDA a : \A k \in 1..Len(old) : old[k] # a)
AppendAccounts(old, new) == old \o new

\* append(bankGenState.Balances, genBalances...) (line 106)
AppendBalancesFront(old, new) == new \o old
AppendBalances(old, new) == old \o new

\* addGenAccounts(cfg, genAccounts, genBalances) (lines 89-110).  cfg is a
\* struct passed by value whose GenesisState field is a Go map, that is a
\* reference: heap maps each such reference to the map's content.  outcome is
\* "ok" (line 109), "packErr" (line 96), or the panic of the decoding of the
\* account section (line 92) or of the bank section (line 104).
addGenAccountsCopy(heap, cfg, genAccounts, genBalances) ==
    LET gs == heap[cfg.GenesisState]
        authGenState == MustUnmarshalJSON(MapGet(gs, AuthModuleName))
        packed == PackAccounts(genAccounts)
        gs1 == MapPut(gs, AuthModuleName,
                   MustMarshalJSON([params |-> authGenState.params,
                       items |-> AppendAccounts(authGenState.items, packed.anys)]))
        bankGenState == MustUnmarshalJSON(MapGet(gs1, BankModuleName))
        gs2 == MapPut(gs1, BankModuleName,
                   MustMarshalJSON([params |-> bankGenState.params,
                       items |-> AppendBalances(bankGenState.items, genBalances)]))
        fresh == Len(heap) + 1
    IN  IF ~authGenState.ok
        THEN [heap |-> heap, cfg |-> cfg, outcome |-> "panicAuth"]
        ELSE IF packed.err
        THEN [heap |-> heap, cfg |-> cfg, outcome |-> "packErr"]
        ELSE IF ~bankGenState.ok
        THEN [heap |-> [heap EXCEPT ![cfg.GenesisState] = gs1], cfg |-> cfg,
              outcome |-> "panicBank"]
        ELSE [heap |-> Append(heap, gs2),
              cfg |-> [cfg EXCEPT !.GenesisState = fresh], outcome |-> "ok"]
addGenAccountsEncodeFirst(heap, cfg, genAccounts, genBalances) ==
    LET gs == heap[cfg.GenesisState]
        authGenState == MustUnmarshalJSON(MapGet(gs, AuthModuleName))
        packed == PackAccounts(genAccounts)
        gs1 == MapPut(gs, AuthModuleName,
                   MustMarshalJSON([params |-> authGenState.params,
                       items |-> AppendAccounts(authGenState.items, packed.anys)]))
        bankGenState == MustUnmarshalJSON(MapGet(gs1, BankModuleName))
        gs2 == MapPut(gs1, BankModuleName,
                   MustMarshalJSON([params |-> bankGenState.params,
                       items |-> AppendBalances(bankGenState.items, genBalances)]))
    IN  IF ~authGenState.ok
        THEN [heap |-> heap, cfg |-> cfg, outcome |-> "panicAuth"]
        ELSE IF packed.err
        THEN [heap |-> [heap EXCEPT ![cfg.GenesisState] = gs1], cfg |-> cfg,
              outcome |-> "packErr"]
        ELSE IF ~bankGenState.ok
        THEN [heap |-> [heap EXCEPT ![cfg.GenesisState] = gs1], cfg |-> cfg,
              outcome |-> "panicBank"]
        ELSE [heap |-> [heap EXCEPT ![cfg.GenesisState] = gs2], cfg |-> cfg,
              outcome |-> "ok"]
addGenAccounts(heap, cfg, genAccounts, genBalances) ==
    LET gs == heap[cfg.GenesisState]
        authGenState == MustUnmarshalJSON(MapGet(gs, AuthModuleName))
        packed == PackAccounts(genAccounts)
        gs1 == MapPut(gs, AuthModuleName,
                   MustMarshalJSON([params |-> authGenState.params,
                       items |-> AppendAccounts(authGenState.items, packed.anys)]))
        bankGenState == MustUnmarshalJSON(MapGet(gs1, BankModuleName))
        gs2 == MapPut(gs1, BankModuleName,
                   MustMarshalJSON([params |-> bankGenState.params,
                       items |-> AppendBalances(bankGenState.items, genBalances)]))
    IN  IF ~authGenState.ok
        THEN [heap |-> heap, cfg |-> cfg, outcome |-> "panicAuth"]
        ELSE IF packed.err
        THEN [heap |-> heap, cfg |-> cfg, outcome |-> "packErr"]
        ELSE IF ~bankGenState.ok
        THEN [heap |-> [heap EXCEPT ![cfg.GenesisState] = gs1], cfg |-> cfg,
              outcome |-> "panicBank"]
        ELSE [heap |-> [heap EXCEPT ![cfg.GenesisState] = gs2], cfg |-> cfg,
              outcome |-> "ok"]

\* ----------------------------------------------------------- DefaultConfig
\* tmrand's alphabet, indexed from 1: "0".."9", "A".."Z", "a".."z"
strChars ==
    [k \in 1..62 |-> IF k <= 10 THEN 47 + k ELSE IF k <= 36 THEN 54 + k ELSE 60 + k]
\* the length asked of Str (line 75)
ChainIDLen == 6
\* the 6-bit values followed: "0", "A", "a", and one outside the alphabet
Draws == {0, 10, 36, 63}
\* NumValidators (line 76) and TimeoutCommit in seconds (line 74)
NumValidators == 1
TimeoutCommitSeconds == 2

\* the network.Config literal of DefaultConfig (lines 58-86); suffix is the
\* string Str(6) returned, genesis the reference of the GenesisState map
DefaultConfigFour(suffix, genesis) ==
    [GenesisState |-> genesis,
     TimeoutCommit |-> TimeoutCommitSeconds,
     ChainID |-> chainPrefix \o suffix,
     NumValidators |-> 4,
     BondDenom |-> DefaultBondDenom,
     PruningStrategy |-> "nothing",
     CleanupDir |-> TRUE,
     SigningAlgo |-> "secp256k1"]
DefaultConfigValue(suffix, genesis) ==
    [GenesisState |-> genesis,
     TimeoutCommit |-> TimeoutCommitSeconds,
     ChainID |-> chainPrefix \o suffix,
     NumValidators |-> NumValidators,
     BondDenom |-> DefaultBondDenom,
     PruningStrategy |-> "nothing",
     CleanupDir |-> TRUE,
     SigningAlgo |-> "secp256k1"]

\* app.ModuleBasics.DefaultGenesis (line 73): no accounts, no balances
AuthParams == [module |-> "auth"]
BankParams == [module |-> "bank"]
StakingBytes == <<LBrace, Tok("params", [module |-> "staking"]), RBrace>>
DefaultGenesis ==
    [k \in {AuthModuleName, BankModuleName, StakingModuleName} |->
        IF k = AuthModuleName
        THEN MustMarshalJSON([params |-> AuthParams, items |-> <<>>])
        ELSE IF k = BankModuleName
        THEN MustMarshalJSON([params |-> BankParams, items |-> <<>>])
        ELSE StakingBytes]

\* ------------------------------------------------- what a test can hand over
\* an account and a balance already in a caller-supplied genesis state
ExistingKey == Derive(100, PassEmpty)
ExistingAccount == NewBaseAccount(AddressOf(ExistingKey), PubKeyOf(ExistingKey), 0, 0)
ExistingBalance ==
    Balance(AddressOf(ExistingKey), <<NewCoin(DefaultBondDenom, "5")>>)
OtherBalance ==
    Balance(AddressOf(Derive(101, PassEmpty)), <<NewCoin(DefaultBondDenom, "7")>>)
ExistingAny == [typeUrl |-> BaseAccountTypeURL, value |-> ExistingAccount]
\* a GenesisAccount implementation that is no proto message
CustomAccount ==
    [kind |-> "Custom", address |-> AddressOf(Derive(101, PassEmpty)),
     pubKey |-> PubKeyOf(Derive(101, PassEmpty)), accountNumber |-> 0,
     sequence |-> 0]

\* sections as a caller may have written them: with white space, cut short
AuthLoose ==
    <<Space, LBrace, Tok("params", AuthParams), Space, LBrack,
      Tok("item", ExistingAny), RBrack, RBrace>>
AuthMalformed == <<LBrace, Tok("params", AuthParams)>>
BankOne == MustMarshalJSON([params |-> BankParams, items |-> <<ExistingBalance>>])
BankMalformed == <<LBrace, Tok("params", BankParams), LBrack, Tok("item", ExistingBalance)>>

\* the GenesisState maps a test starts from: the default one and custom ones
BaseGenesisStates ==
    { DefaultGenesis,
      [DefaultGenesis EXCEPT ![AuthModuleName] = AuthLoose, ![BankModuleName] = BankOne],
      [DefaultGenesis EXCEPT ![AuthModuleName] = AuthMalformed],
      [DefaultGenesis EXCEPT ![AuthModuleName] = AuthLoose,
                             ![BankModuleName] = BankMalformed],
      [k \in {AuthModuleName, StakingModuleName} |-> DefaultGenesis[k]] }

\* the genAccNames lists followed
RECURSIVE SeqsUpTo(_, _)
SeqsUpTo(S, n) ==
    IF n = 0 THEN {<<>>}
    ELSE LET shorter == SeqsUpTo(S, n - 1)
         IN  shorter \cup {Append(q, x) : q \in shorter, x \in S}
NameLists == SeqsUpTo(Names, MaxNames)

\* arguments of a direct call of addGenAccounts (a test of the package)
DirectInputs ==
    { [accs |-> <<>>, bals |-> <<>>],
      [accs |-> <<ExistingAccount>>, bals |-> <<ExistingBalance, OtherBalance>>],
      [accs |-> <<ExistingAccount, CustomAccount>>, bals |-> <<ExistingBalance>>] }

\* the chain ID of the configuration the tests of the main specification use
SampleSuffix == <<48, 65, 97, 48, 65, 97>>

\* ------------------------------------------------------------------- state
VARIABLES
    heap,         \* content of every GenesisState map, by reference
    cfg,          \* the test's configuration value
    policy,       \* the keyring library's answer to a uid it already holds
    pc,           \* where New is: idle, loop, launch, cleanup, return, ...
    names,        \* New: genAccNames
    idx,          \* New: the loop index, from 1
    genAuthAccs,  \* New: accounts built so far
    genBalances,  \* New: balances built so far
    kr,           \* New: the keyring
    config,       \* New: its config parameter and, after line 44, the merged one
    netsBefore,   \* New: harnesses that were started before this call
    nextMn,       \* the next fresh mnemonic
    calls,        \* calls of New and addGenAccounts made so far
    networks,     \* harnesses started by network.New, oldest first
    cleanups,     \* functions registered with t.Cleanup, oldest first
    regs,         \* per network: times its Cleanup was registered
    runs,         \* per network: times its Cleanup ran
    test,         \* the test scope: running, finishing, ended
    outcome,      \* how the test finished: none, pass, fail, abort
    ret,          \* what the last New returned
    last,         \* the last call of addGenAccounts: arguments, result
    base,         \* the GenesisState map the test started from
    histAccs,     \* accounts appended by line 99 so far, in order
    histBals,     \* balances appended by line 106 so far, in order
    dcPc,         \* DefaultConfig: idle, str, done
    dcChars,      \* DefaultConfig: the characters Str has so far
    dcCalls,      \* calls of DefaultConfig so far
    dcRet,        \* what the last DefaultConfig returned
    dcPrev        \* the chain ID of the DefaultConfig call before it

newVars == <<pc, names, idx, genAuthAccs, genBalances, kr, config, netsBefore>>
testVars == <<networks, cleanups, regs, runs, test, outcome, ret>>
ghostVars == <<last, base, histAccs, histBals>>
dcVars == <<dcPc, dcChars, dcCalls, dcRet, dcPrev>>
vars == <<heap, cfg, policy, newVars, nextMn, calls, testVars, ghostVars, dcVars>>

NoConfig == DefaultConfigValue(<<>>, 0)
NoCall ==
    [valid |-> FALSE, pre |-> DefaultGenesis, in |-> NoConfig, out |-> NoConfig,
     outcome |-> "none", accs |-> <<>>, bals |-> <<>>, byNew |-> FALSE]
NoReturn == [valid |-> FALSE, net |-> 0, kr |-> <<>>, names |-> <<>>, accs |-> <<>>,
             bals |-> <<>>]

InitCommon ==
    /\ pc = "idle" /\ names = <<>> /\ idx = 1
    /\ genAuthAccs = <<>> /\ genBalances = <<>>
    /\ kr = generateKeyring /\ config = NoConfig /\ netsBefore = 0
    /\ nextMn = 1 /\ calls = 0
    /\ networks = <<>> /\ cleanups = <<>> /\ regs = <<>> /\ runs = <<>>
    /\ test = "running" /\ outcome = "none"
    /\ ret = NoReturn /\ last = NoCall
    /\ histAccs = <<>> /\ histBals = <<>>
    /\ dcPc = "idle" /\ dcChars = <<>> /\ dcCalls = 0
    /\ dcRet = NoConfig /\ dcPrev = <<>>

\* a test that starts from the default configuration or from its own
Init ==
    /\ InitCommon
    /\ base \in BaseGenesisStates
    /\ heap = <<base>>
    /\ cfg = DefaultConfigValue(SampleSuffix, 1)
    /\ policy \in UidPolicies

\* ---------------------------------------------------------------- New
\* a panic that leaves New: the test aborts and its scope unwinds
Panic == pc' = "panicked" /\ test' = "finishing" /\ outcome' = "abort"

\* New(t, config, genAccNames...) is entered (lines 32-37)
NewCall ==
    /\ test = "running" /\ pc = "idle" /\ calls < MaxCalls
    /\ \E ns \in NameLists :
        /\ names' = ns
        /\ pc' = "loop" /\ idx' = 1
        /\ genAuthAccs' = <<>> /\ genBalances' = <<>>
        /\ kr' = generateKeyring
        /\ config' = cfg
        /\ calls' = calls + 1
    /\ netsBefore' = Len(networks)
    /\ UNCHANGED <<heap, cfg, policy, nextMn, testVars, ghostVars, dcVars>>

\* one turn of the loop (lines 38-42)
NewLoop ==
    /\ pc = "loop" /\ idx <= Len(names)
    /\ \E entropyOk \in BOOLEAN :
        LET r == newGenAccout(kr, names[idx], NewAmount, nextMn, entropyOk, policy)
        IN  /\ kr' = r.kr
            /\ IF r.panic
               THEN /\ Panic
                    /\ UNCHANGED <<idx, genAuthAccs, genBalances>>
               ELSE /\ genAuthAccs' = Append(genAuthAccs, r.acc)
                    /\ genBalances' = Append(genBalances, r.bal)
                    /\ idx' = idx + 1
                    /\ UNCHANGED <<pc, test, outcome>>
    /\ nextMn' = nextMn + 1
    /\ UNCHANGED <<heap, cfg, policy, names, config, netsBefore, calls, networks,
                   cleanups, regs, runs, ret, ghostVars, dcVars>>

\* the record of a call of addGenAccounts
CallRecord(r, c, accs, bals, byNew) ==
    [valid |-> TRUE, pre |-> heap[c.GenesisState], in |-> c, out |-> r.cfg,
     outcome |-> r.outcome, accs |-> accs, bals |-> bals, byNew |-> byNew]
HistAccsAfter(r, accs) ==
    IF r.outcome \in {"ok", "panicBank"} THEN histAccs \o accs ELSE histAccs
HistBalsAfter(r, bals) ==
    IF r.outcome = "ok" THEN histBals \o bals ELSE histBals

\* the merge and its error check (lines 44-47)
NewMerge ==
    /\ pc = "loop" /\ idx > Len(names)
    /\ LET r == addGenAccounts(heap, config, genAuthAccs, genBalances)
       IN  /\ heap' = r.heap
           /\ last' = CallRecord(r, config, genAuthAccs, genBalances, TRUE)
           /\ histAccs' = HistAccsAfter(r, genAuthAccs)
           /\ histBals' = HistBalsAfter(r, genBalances)
           /\ IF r.outcome = "ok"
              THEN /\ config' = r.cfg /\ pc' = "launch"
                   /\ UNCHANGED <<test, outcome>>
              ELSE /\ Panic
                   /\ UNCHANGED config
    /\ UNCHANGED <<cfg, policy, names, idx, genAuthAccs, genBalances, kr,
                   netsBefore, nextMn, calls, networks, cleanups, regs, runs, ret,
                   base, dcVars>>

\* net := network.New(t, config) (line 49); the harness may fail the test
NewLaunchBeforeMerge ==
    /\ pc = "loop"
    /\ networks' = Append(networks,
           [genesis |-> heap[config.GenesisState], histAccs |-> histAccs,
            histBals |-> histBals])
    /\ regs' = Append(regs, 0) /\ runs' = Append(runs, 0)
    /\ pc' = "cleanup"
    /\ UNCHANGED <<heap, cfg, policy, names, idx, genAuthAccs, genBalances, kr,
                   config, netsBefore, nextMn, calls, cleanups, test, outcome, ret, ghostVars,
                   dcVars>>
NewLaunch ==
    /\ pc = "launch"
    /\ \E started \in BOOLEAN :
        IF started
        THEN /\ networks' = Append(networks,
                    [genesis |-> heap[config.GenesisState], histAccs |-> histAccs,
                     histBals |-> histBals])
             /\ regs' = Append(regs, 0) /\ runs' = Append(runs, 0)
             /\ pc' = "cleanup"
             /\ UNCHANGED <<test, outcome>>
        ELSE /\ pc' = "exited" /\ test' = "finishing" /\ outcome' = "fail"
             /\ UNCHANGED <<networks, regs, runs>>
    /\ UNCHANGED <<heap, cfg, policy, names, idx, genAuthAccs, genBalances, kr,
                   config, netsBefore, nextMn, calls, cleanups, ret, ghostVars, dcVars>>

\* t.Cleanup(net.Cleanup) (line 50)
NewRegisterCleanupTwice ==
    /\ pc = "cleanup"
    /\ cleanups' = cleanups \o <<Len(networks), Len(networks)>>
    /\ regs' = [regs EXCEPT ![Len(networks)] = @ + 2]
    /\ pc' = "return"
    /\ UNCHANGED <<heap, cfg, policy, names, idx, genAuthAccs, genBalances, kr,
                   config, netsBefore, nextMn, calls, networks, runs, test, outcome, ret,
                   ghostVars, dcVars>>
NewRegisterCleanup ==
    /\ pc = "cleanup"
    /\ cleanups' = Append(cleanups, Len(networks))
    /\ regs' = [regs EXCEPT ![Len(networks)] = @ + 1]
    /\ pc' = "return"
    /\ UNCHANGED <<heap, cfg, policy, names, idx, genAuthAccs, genBalances, kr,
                   config, netsBefore, nextMn, calls, networks, runs, test, outcome, ret,
                   ghostVars, dcVars>>

\* return net, kr (line 51)
NewReturn ==
    /\ pc = "return"
    /\ ret' = [valid |-> TRUE, net |-> Len(networks), kr |-> kr, names |-> names,
               accs |-> genAuthAccs, bals |-> genBalances]
    /\ pc' = "idle"
    /\ UNCHANGED <<heap, cfg, policy, names, idx, genAuthAccs, genBalances, kr,
                   config, netsBefore, nextMn, calls, networks, cleanups, regs, runs, test,
                   outcome, ghostVars, dcVars>>

\* cfg, err = addGenAccounts(cfg, accs, bals), called by a test of the package
AddGenAccountsCall ==
    /\ test = "running" /\ pc = "idle" /\ calls < MaxCalls
    /\ \E input \in DirectInputs :
        LET r == addGenAccounts(heap, cfg, input.accs, input.bals)
        IN  /\ heap' = r.heap
            /\ cfg' = r.cfg
            /\ last' = CallRecord(r, cfg, input.accs, input.bals, FALSE)
            /\ histAccs' = HistAccsAfter(r, input.accs)
            /\ histBals' = HistBalsAfter(r, input.bals)
            /\ IF r.outcome \in {"panicAuth", "panicBank"}
               THEN test' = "finishing" /\ outcome' = "abort"
               ELSE UNCHANGED <<test, outcome>>
    /\ calls' = calls + 1
    /\ UNCHANGED <<policy, newVars, nextMn, networks, cleanups, regs, runs, ret,
                   base, dcVars>>

\* ------------------------------------------------------------ the test scope
\* the test function returns, fails or aborts
TestFinish ==
    /\ test = "running" /\ pc = "idle"
    /\ test' = "finishing"
    /\ outcome' \in {"pass", "fail", "abort"}
    /\ UNCHANGED <<heap, cfg, policy, newVars, nextMn, calls, networks, cleanups,
                   regs, runs, ret, ghostVars, dcVars>>

\* the testing package runs the registered functions, last registered first
RunCleanup ==
    /\ test = "finishing" /\ cleanups # <<>>
    /\ LET n == cleanups[Len(cleanups)]
       IN  runs' = [runs EXCEPT ![n] = @ + 1]
    /\ cleanups' = SubSeq(cleanups, 1, Len(cleanups) - 1)
    /\ UNCHANGED <<heap, cfg, policy, newVars, nextMn, calls, networks, regs, test,
                   outcome, ret, ghostVars, dcVars>>

\* no function is left: the scope has ended
TestEnd ==
    /\ test = "finishing" /\ cleanups = <<>>
    /\ test' = "ended"
    /\ UNCHANGED <<heap, cfg, policy, newVars, nextMn, calls, networks, cleanups,
                   regs, runs, outcome, ret, ghostVars, dcVars>>

Next ==
    \/ NewCall \/ NewLoop \/ NewMerge \/ NewLaunch \/ NewRegisterCleanup
    \/ NewReturn \/ AddGenAccountsCall \/ TestFinish \/ RunCleanup \/ TestEnd

Spec == Init /\ [][Next]_vars

\* ------------------------------------------------ DefaultConfig, by itself
InitCfg ==
    /\ InitCommon
    /\ base = DefaultGenesis
    /\ heap = <<>>
    /\ cfg = NoConfig
    /\ policy = "reject"

\* DefaultConfig() is entered; Str(6) starts with no character (line 75)
DefaultConfigCall ==
    /\ dcPc \in {"idle", "done"} /\ dcCalls < MaxCfgCalls
    /\ dcPc' = "str" /\ dcChars' = <<>>
    /\ dcCalls' = dcCalls + 1
    /\ dcPrev' = IF dcPc = "done" THEN dcRet.ChainID ELSE <<>>
    /\ UNCHANGED <<heap, cfg, policy, newVars, nextMn, calls, testVars, ghostVars,
                   dcRet>>

\* one turn of Str's loop: a 6-bit value, kept if it indexes the alphabet
DefaultConfigStr ==
    /\ dcPc = "str" /\ Len(dcChars) < ChainIDLen
    /\ \E v \in Draws :
        dcChars' = IF v >= 62 THEN dcChars ELSE Append(dcChars, strChars[v + 1])
    /\ UNCHANGED <<heap, cfg, policy, newVars, nextMn, calls, testVars, ghostVars,
                   dcPc, dcCalls, dcRet, dcPrev>>

\* the configuration is returned, with a freshly built GenesisState map
DefaultConfigReturn ==
    /\ dcPc = "str" /\ Len(dcChars) = ChainIDLen
    /\ heap' = <<DefaultGenesis>>
    /\ dcRet' = DefaultConfigValue(dcChars, 1)
    /\ dcPc' = "done"
    /\ UNCHANGED <<cfg, policy, newVars, nextMn, calls, testVars, ghostVars,
                   dcChars, dcCalls, dcPrev>>

NextCfg == DefaultConfigCall \/ DefaultConfigStr \/ DefaultConfigReturn

SpecCfg == InitCfg /\ [][NextCfg]_vars

\* ------------------------------------------------------------------ claims
\* what the claims read: the lists inside a GenesisState map
AccountsIn(gs) == MustUnmarshalJSON(MapGet(gs, AuthModuleName))
BalancesIn(gs) == MustUnmarshalJSON(MapGet(gs, BankModuleName))
\* the map a configuration refers to
GenesisOf(c) == heap[c.GenesisState]
\* a configuration without its GenesisState field
OtherFields(c) == [c EXCEPT !.GenesisState = 0]
LastOk == last.valid /\ last.outcome = "ok"
\* whole is front followed by exactly the n entries of back
IsAppended(whole, front, n) ==
    /\ Len(whole) = Len(front) + n
    /\ \A k \in 1..Len(front) : whole[k] = front[k]
NoRepeat(q) == \A j, k \in 1..Len(q) : j # k => q[j] # q[k]

\* C1: after a merge that completed, the account section holds the entries it
\* held before, unchanged and in their order, followed by exactly the N new
\* accounts in the order given, none dropped as a duplicate; in New, N is the
\* number of names asked for.
C1_AccountsAppended ==
    LastOk =>
        LET before == AccountsIn(last.pre)
            after == AccountsIn(GenesisOf(last.out))
            n == Len(last.accs)
        IN  /\ after.ok
            /\ IsAppended(after.items, before.items, n)
            /\ \A k \in 1..n : after.items[Len(before.items) + k].value = last.accs[k]
            /\ (last.byNew /\ pc \in {"launch", "cleanup", "return"}) =>
                   /\ n = Len(names)
                   /\ \A k \in 1..n : KrHas(kr, names[k])

\* C1 witness: a completed merge of an account the section already held
C1_Witness ==
    /\ LastOk
    /\ Len(last.accs) >= 1
    /\ \E k \in 1..Len(AccountsIn(last.pre).items) :
           AccountsIn(last.pre).items[k].value = last.accs[1]

\* C2: after a merge that completed, the bank section holds the balances it
\* held before, unchanged and in their order, followed by exactly the N new
\* balances as given (not wrapped), in their order.
C2_BalancesAppended ==
    LastOk =>
        LET before == BalancesIn(last.pre)
            after == BalancesIn(GenesisOf(last.out))
            n == Len(last.bals)
        IN  /\ after.ok
            /\ IsAppended(after.items, before.items, n)
            /\ \A k \in 1..n : after.items[Len(before.items) + k] = last.bals[k]

\* C2 witness: two balances appended to a bank section that held one
C2_Witness ==
    /\ LastOk
    /\ Len(last.bals) = 2
    /\ Len(BalancesIn(last.pre).items) = 1

\* C3: whatever merges were made, every GenesisState map has the module keys
\* the test started with, the bytes under every key other than the account
\* and bank modules are the ones it started with, and every other field of
\* the configuration, in the caller's value, in New's and in the returned
\* one, is unchanged.
C3_OnlyAuthAndBankTouched ==
    /\ \A r \in 1..Len(heap) :
        /\ DOMAIN heap[r] = DOMAIN base
        /\ \A k \in DOMAIN base \ {AuthModuleName, BankModuleName} :
               heap[r][k] = base[k]
    /\ OtherFields(cfg) = OtherFields(DefaultConfigValue(SampleSuffix, 1))
    /\ pc # "idle" => OtherFields(config) = OtherFields(cfg)
    /\ last.valid => OtherFields(last.out) = OtherFields(last.in)

\* C3 witness: a merge that changed both sections
C3_Witness ==
    /\ LastOk
    /\ GenesisOf(last.out)[AuthModuleName] # last.pre[AuthModuleName]
    /\ GenesisOf(last.out)[BankModuleName] # last.pre[BankModuleName]
    /\ StakingModuleName \in DOMAIN last.pre

\* C4: every balance newGenAccout returned holds exactly two coins, one of
\* denomination <name>token and one of the bonding denomination, both of the
\* amount asked for, in ascending order of denomination, and carries the
\* address of the account returned with it.
C4_BalanceOfNewAccount ==
    \A k \in 1..Len(genBalances) :
        LET b == genBalances[k]
        IN  /\ Len(b.coins) = 2
            /\ {b.coins[1].denom, b.coins[2].denom}
                   = {names[k] \o tokenSuffix, DefaultBondDenom}
            /\ b.coins[1].amount = "1000000000000"
            /\ b.coins[2].amount = "1000000000000"
            /\ StrLess(b.coins[1].denom, b.coins[2].denom)
            /\ b.address = genAuthAccs[k].address

\* C4 witness: balances built for a name whose token sorts before the bonding
\* denomination and for one whose token sorts after it
C4_Witness ==
    /\ Len(genBalances) = 2
    /\ names = <<NameAl, NameZ>>
    /\ genBalances[1].coins[1].denom = NameAl \o tokenSuffix
    /\ genBalances[2].coins[1].denom = DefaultBondDenom

\* C5: when New has returned, the keyring it returned holds, under every name
\* asked for, the identity whose address and public key are those of the
\* genesis account injected for that name.
C5_KeyringMatchesGenesis ==
    (ret.valid /\ NoRepeat(ret.names)) =>
        \A k \in 1..Len(ret.names) :
            /\ KrHas(ret.kr, ret.names[k])
            /\ KrGet(ret.kr, ret.names[k]).address = ret.accs[k].address
            /\ KrGet(ret.kr, ret.names[k]).pubKey = ret.accs[k].pubKey

\* C6: in a call of New the harness is started only when an identity exists
\* for every name and the merge has completed; a call that panicked, at the
\* creation of an identity or at the merge, started no harness and registered
\* no teardown.
C6_LaunchOnlyAfterSetup ==
    /\ Len(regs) = Len(networks)
    /\ \A k \in 1..Len(cleanups) : cleanups[k] <= Len(networks)
    /\ pc \in {"loop", "launch", "panicked"} => Len(networks) = netsBefore
    /\ pc \in {"cleanup", "return"} =>
        /\ Len(networks) = netsBefore + 1
        /\ Len(genAuthAccs) = Len(names) /\ Len(genBalances) = Len(names)
        /\ \A k \in 1..Len(names) : KrHas(kr, names[k])
        /\ LastOk /\ last.byNew
        /\ last.accs = genAuthAccs /\ last.bals = genBalances
        /\ networks[Len(networks)].genesis = GenesisOf(last.out)

\* C6 witness: New panicked at the merge, after it had created an identity
\* for every name
C6_Witness ==
    /\ pc = "panicked"
    /\ idx > Len(names) /\ Len(names) >= 1
    /\ last.valid /\ last.byNew /\ last.outcome # "ok"

\* C7: the teardown of every harness New started is registered exactly once
\* (from line 50 on), runs at most once, never while the test is running, and
\* when the test scope has ended, however the test finished, has run exactly
\* once; only harnesses that were started are torn down.
C7_TeardownOnce ==
    /\ Len(regs) = Len(networks) /\ Len(runs) = Len(networks)
    /\ \A k \in 1..Len(cleanups) : cleanups[k] \in 1..Len(networks)
    /\ \A n \in 1..Len(networks) :
        /\ regs[n] = IF n = Len(networks) /\ pc = "cleanup" THEN 0 ELSE 1
        /\ runs[n] <= 1
        /\ runs[n] > 0 => test # "running"
        /\ test = "ended" => runs[n] = 1

\* C7 witness: a test that started two harnesses aborted, and its scope ended
C7_Witness ==
    /\ test = "ended" /\ outcome = "abort"
    /\ Len(networks) = 2
    /\ runs = <<1, 1>>

\* character classes of a chain ID
IsDigit(c) == c \in 48..57
IsUpper(c) == c \in 65..90
IsLower(c) == c \in 97..122
\* the part of a chain ID after "chain-"
SuffixOf(id) == SubSeq(id, Len(chainPrefix) + 1, Len(id))
FixedDefaults(c) ==
    /\ c.NumValidators = 1
    /\ c.PruningStrategy = "nothing"
    /\ c.CleanupDir = TRUE
    /\ c.TimeoutCommit = 2
    /\ Len(c.ChainID) = 12
    /\ SubSeq(c.ChainID, 1, 6) = <<99, 104, 97, 105, 110, 45>>

\* C8 as stated: every configuration DefaultConfig returns has validator
\* count 1, pruning "nothing", cleanup true, commit timeout 2 seconds and a
\* chain ID of "chain-" and 6 lowercase alphanumeric characters.
C8_ChainIDLowercase ==
    dcPc = "done" =>
        /\ FixedDefaults(dcRet)
        /\ \A k \in 1..Len(SuffixOf(dcRet.ChainID)) :
               LET c == SuffixOf(dcRet.ChainID)[k] IN IsDigit(c) \/ IsLower(c)

\* C8 as amended: the same, with a chain ID of "chain-" and 6 alphanumeric
\* characters of either case.
C8_DefaultConfigInvariants ==
    dcPc = "done" =>
        /\ FixedDefaults(dcRet)
        /\ \A k \in 1..Len(SuffixOf(dcRet.ChainID)) :
               LET c == SuffixOf(dcRet.ChainID)[k]
               IN  IsDigit(c) \/ IsLower(c) \/ IsUpper(c)

\* C8 witness: a second call returned a chain ID other than the first call's,
\* with a digit, a capital and a small letter in it
C8_Witness ==
    /\ dcPc = "done" /\ dcCalls = 2
    /\ dcPrev # dcRet.ChainID
    /\ \E i, j, k \in 7..12 :
           /\ IsDigit(dcRet.ChainID[i])
           /\ IsUpper(dcRet.ChainID[j])
           /\ IsLower(dcRet.ChainID[k])

\* C9 as stated: whenever addGenAccounts did not complete, the GenesisState
\* map is exactly as it was before the call.
C9_AllOrNothing ==
    (last.valid /\ last.outcome # "ok") => GenesisOf(last.in) = last.pre

\* C9 as amended: the map is exactly as before when the packing failed or the
\* account section did not decode; when the bank section did not decode, the
\* account section has been rewritten with the new accounts appended and
\* every other key, the bank section included, is as before.
C9_FailureEffects ==
    /\ (last.valid /\ last.outcome \in {"packErr", "panicAuth"}) =>
           GenesisOf(last.in) = last.pre
    /\ (last.valid /\ last.outcome = "panicBank") =>
        LET now == GenesisOf(last.in)
            before == AccountsIn(last.pre)
            after == AccountsIn(now)
            n == Len(last.accs)
        IN  /\ DOMAIN now = DOMAIN last.pre
            /\ \A k \in DOMAIN now \ {AuthModuleName} : now[k] = last.pre[k]
            /\ after.ok
            /\ IsAppended(after.items, before.items, n)
            /\ \A k \in 1..n :
                   after.items[Len(before.items) + k].value = last.accs[k]
    /\ (last.valid /\ last.outcome = "panicAuth") => ~AccountsIn(last.pre).ok
    /\ (last.valid /\ last.outcome = "panicBank") => ~BalancesIn(last.pre).ok

\* C9 witness: the bank section did not decode after an account was appended
C9_Witness ==
    /\ last.valid /\ last.outcome = "panicBank"
    /\ Len(last.accs) >= 1
    /\ GenesisOf(last.in) # last.pre

\* C10: a completed merge is visible through the configuration it was given:
\* the input and the returned configuration show the same account and bank
\* sections, and so does the caller's value; hence the genesis of every
\* harness New starts holds the base entries followed by what every earlier
\* merge on that configuration appended and then what this call appended.
C10_MergedInPlace ==
    /\ LastOk =>
        /\ GenesisOf(last.in)[AuthModuleName] = GenesisOf(last.out)[AuthModuleName]
        /\ GenesisOf(last.in)[BankModuleName] = GenesisOf(last.out)[BankModuleName]
        /\ GenesisOf(cfg) = GenesisOf(last.out)
    /\ \A n \in 1..Len(networks) :
        LET net == networks[n]
            accs == AccountsIn(net.genesis).items
            bals == BalancesIn(net.genesis).items
            baseAccs == AccountsIn(base).items
            baseBals == BalancesIn(base).items
        IN  /\ IsAppended(accs, baseAccs, Len(net.histAccs))
            /\ \A k \in 1..Len(net.histAccs) :
                   accs[Len(baseAccs) + k].value = net.histAccs[k]
            /\ bals = baseBals \o net.histBals
            /\ n > 1 =>
                /\ IsAppended(net.histAccs, networks[n - 1].histAccs,
                              Len(net.histAccs) - Len(networks[n - 1].histAccs))
                /\ Len(net.histAccs) >= Len(networks[n - 1].histAccs)

\* C10 witness: New was called twice with the same configuration, with names
\* each time, and started a harness each time
C10_Witness ==
    /\ Len(networks) = 2
    /\ Len(networks[1].histAccs) >= 1
    /\ Len(networks[2].histAccs) > Len(networks[1].histAccs)
    /\ ret.valid /\ ret.net = 2

====
